---- MODULE Spec2Model ----
(***************************************************************************)
(* Conformal uncertainty calibrators of chemprop/uncertainty/calibrator.py *)
(*                                                                         *)
(* A calibrator instance is the record `cal`; the last call made on it     *)
(* (constructor, fit or apply) with its arguments and its outcome is the   *)
(* record `call`.  Tensors are sequences: a (N, T) tensor is a sequence of *)
(* N rows of T entries, a (N, T, K) tensor holds a sequence of K class     *)
(* values in every entry.  Class c of the source (0-based) is position     *)
(* c + 1 of such a sequence.                                               *)
(*                                                                         *)
(* Numbers are exact.  Probabilities and regression values are integers    *)
(* (a fixed unit), alpha and quantile levels are fractions <<num, den>>    *)
(* with den > 0, and +inf / -inf are the two values PosInf / NegInf that   *)
(* lie outside the range of every score.                                   *)
(***************************************************************************)
EXTENDS Integers, Sequences, FiniteSets, TLC

VARIABLES cal, call

vars == <<cal, call>>

---------------------------------------------------------------------------
(* Bounds of the model                                                     *)

\* alpha ranges over the multiples of 1/AlphaDen
AlphaDen == 4
\* a freshly built instance is fitted on up to MaxRows datapoints of one task
MaxRows == 3
\* the quantile level is tabulated for up to MaxCount calibration points
MaxCount == 20
\* a coverage experiment of the multiclass calibrator has up to MaxPoints
\* datapoints, one of the multilabel calibrator up to MaxLabelPoints
MaxPoints == 4
MaxLabelPoints == 3

---------------------------------------------------------------------------
(* Arithmetic                                                              *)

\* math.ceil(a / b) for b > 0
CeilDiv(a, b) == 0 - ((0 - a) \div b)

Max2(a, b) == IF a >= b THEN a ELSE b
Min2(a, b) == IF a <= b THEN a ELSE b

\* float("inf")
PosInf == 1000
NegInf == 0 - PosInf

---------------------------------------------------------------------------
(* torch.quantile(input, q, interpolation="higher") on a 1-d tensor        *)

\* two sorted sequences merged into one: a[i] comes after the i - 1 values
\* before it in a and the values of b below it, b[j] after the j - 1 values
\* before it in b and the values of a at or below it
merge_sorted(a, b) ==
    [k \in 1 .. Len(a) + Len(b) |->
        IF \E i \in 1 .. Len(a) :
              i + Cardinality({j \in 1 .. Len(b) : b[j] < a[i]}) = k
        THEN a[CHOOSE i \in 1 .. Len(a) :
                  i + Cardinality({j \in 1 .. Len(b) : b[j] < a[i]}) = k]
        ELSE b[CHOOSE j \in 1 .. Len(b) :
                  j + Cardinality({i \in 1 .. Len(a) : a[i] <= b[j]}) = k]]

\* torch.sort, ascending (the two halves are bound as values, and the merged
\* function is turned into a tuple, so that each is computed once)
RECURSIVE torch_sort(_)
torch_sort(s) ==
    IF Len(s) <= 1 THEN s
    ELSE CHOOSE m \in {merge_sorted(a, b) \o <<>> :
                          a \in {torch_sort(SubSeq(s, 1, Len(s) \div 2))},
                          b \in {torch_sort(SubSeq(s, Len(s) \div 2 + 1, Len(s)))}} : TRUE

\* rank = q * (n - 1), rounded up; the result is the sorted input at that rank.
\* An empty input or a level outside [0, 1] raises RuntimeError.
torch_quantile(input, q) ==
    IF Len(input) = 0 THEN [status |-> "RuntimeError", v |-> 0]
    ELSE IF q[1] < 0 \/ q[1] > q[2] THEN [status |-> "RuntimeError", v |-> 0]
    ELSE [status |-> "ok",
          v |-> torch_sort(input)[CeilDiv(q[1] * (Len(input) - 1), q[2]) + 1]]

---------------------------------------------------------------------------
(* The quantile level of MulticlassConformalCalibrator.fit and             *)
(* RegressionConformalCalibrator.fit                                       *)

q_level_always_ceil(num_data, alpha) ==
    IF num_data = 0
    THEN [status |-> "ZeroDivisionError", q |-> <<0, 1>>, warn |-> FALSE]
    ELSE [status |-> "ok",
          q |-> <<CeilDiv((num_data + 1) * (alpha[2] - alpha[1]), alpha[2]), num_data>>,
          warn |-> FALSE]

\* the else branch without warnings.warn
q_level_silent(num_data, alpha) ==
    IF alpha[1] * (num_data + 1) >= alpha[2]
    THEN q_level_always_ceil(num_data, alpha)
    ELSE [status |-> "ok", q |-> <<1, 1>>, warn |-> FALSE]

\* if self.alpha >= 1 / (num_data + 1):
\*     q_level = math.ceil((num_data + 1) * (1 - self.alpha)) / num_data
\* else: q_level = 1, with a warning
q_level(num_data, alpha) ==
    IF alpha[1] * (num_data + 1) >= alpha[2]
    THEN IF num_data = 0
         THEN [status |-> "ZeroDivisionError", q |-> <<0, 1>>, warn |-> FALSE]
         ELSE [status |-> "ok",
               q |-> <<CeilDiv((num_data + 1) * (alpha[2] - alpha[1]), alpha[2]), num_data>>,
               warn |-> FALSE]
    ELSE [status |-> "ok", q |-> <<1, 1>>, warn |-> TRUE]

---------------------------------------------------------------------------
(* Tensors                                                                 *)

NumTasks(t) == IF Len(t) = 0 THEN 0 ELSE Len(t[1])

\* a selection that ignores the mask and keeps every row
MaskedRows_all(mask, j) == [r \in 1 .. Len(mask) |-> r]

\* t[mask[:, j]]: the positions i of column j where the mask is true, in order
MaskedRows(mask, j) ==
    [r \in 1 .. Cardinality({i \in DOMAIN mask : mask[i][j]}) |->
        CHOOSE i \in DOMAIN mask :
            mask[i][j] /\ Cardinality({h \in 1 .. i : mask[h][j]}) = r]

\* the set of all sequences s with s[p] \in sets[p]
RECURSIVE ProdSeq(_)
ProdSeq(sets) ==
    IF sets = <<>> THEN {<<>>}
    ELSE {<<x>> \o rest : x \in Head(sets), rest \in ProdSeq(Tail(sets))}

---------------------------------------------------------------------------
(* Calibrator instances                                                    *)

ConformalKinds ==
    {"conformal-multilabel", "conformal-multiclass", "conformal-adaptive",
     "conformal-regression"}

\* the registered calibrators whose fit and apply bodies are `...; return`
StubKinds ==
    {"zscaling", "tscaling", "zelikman-interval", "mve-weighting", "platt",
     "isotonic", "isotonic-multiclass"}

UncertaintyCalibratorRegistry == ConformalKinds \cup StubKinds

MulticlassKinds == {"conformal-multiclass", "conformal-adaptive"}

\* an attribute that was never assigned
Unset == [set |-> FALSE, v |-> 0]
\* self.qhats: never assigned, a Python list (while fit runs) or a tensor
NoQhats == [form |-> "unset", vals |-> <<>>]

\* fit_called is no attribute of the object: it records that fit was called
NoInstance ==
    [kind |-> "none", alpha |-> <<0, 1>>, tin |-> Unset, tout |-> Unset, qhats |-> NoQhats,
     fit_called |-> FALSE]

NewInstance(kind, alpha) ==
    [kind |-> kind, alpha |-> alpha, tin |-> Unset, tout |-> Unset, qhats |-> NoQhats,
     fit_called |-> FALSE]

ConformalInit_open(kind, alpha) ==
    IF 0 < alpha[1] /\ alpha[1] < alpha[2]
    THEN [status |-> "ok", self |-> NewInstance(kind, alpha)]
    ELSE [status |-> "ValueError", self |-> NoInstance]

\* __init__ of the four conformal calibrators: alpha outside [0, 1] raises
\* ValueError and the caller gets no instance
ConformalInit(kind, alpha) ==
    IF 0 <= alpha[1] /\ alpha[1] <= alpha[2]
    THEN [status |-> "ok", self |-> NewInstance(kind, alpha)]
    ELSE [status |-> "ValueError", self |-> NoInstance]

\* the other calibrators define no __init__ and take no argument
StubInit(kind) == [status |-> "ok", self |-> NewInstance(kind, <<0, 1>>)]

---------------------------------------------------------------------------
(* Nonconformity scores                                                    *)

\* MultilabelConformalCalibrator.nonconformity_scores on a (N, T) tensor
nonconformity_scores_multilabel(preds) ==
    [i \in DOMAIN preds |-> [j \in DOMAIN preds[i] |-> 0 - preds[i][j]]]

\* MulticlassConformalCalibrator.nonconformity_scores on a (N, T, K) tensor
nonconformity_scores_multiclass(preds) ==
    [i \in DOMAIN preds |->
        [j \in DOMAIN preds[i] |->
            [k \in DOMAIN preds[i][j] |-> 0 - preds[i][j][k]]]]

ClassOrders(K) ==
    {p \in [1 .. K -> 1 .. K] : \A a, b \in 1 .. K : a # b => p[a] # p[b]}

\* torch.argsort(row), without the minus: from least to most likely
argsort_ascending(row) ==
    {p \in ClassOrders(Len(row)) :
        \A a \in 1 .. Len(row) - 1 : row[p[a]] <= row[p[a + 1]]}

\* torch.argsort(-row): the orders that put the row from most to least likely.
\* The sort is not stable, so classes of equal probability come in any order.
argsort_descending(row) ==
    {p \in ClassOrders(Len(row)) :
        \A a \in 1 .. Len(row) - 1 : row[p[a]] >= row[p[a + 1]]}

RECURSIVE cumsum(_, _)
cumsum(s, upto) == IF upto = 0 THEN 0 ELSE s[upto] + cumsum(s, upto - 1)

\* a cumsum that leaves out the class itself (the classes ranked above only)
adaptive_row_scores_exclusive(row, sort_index) ==
    LET sorted_preds == [a \in 1 .. Len(row) |-> row[sort_index[a]]]
        sorted_scores == [a \in 1 .. Len(row) |-> cumsum(sorted_preds, a - 1)]
    IN  [k \in 1 .. Len(row) |->
            sorted_scores[CHOOSE a \in 1 .. Len(row) : sort_index[a] = k]]

\* gather by sort_index, cumsum, scatter back to the class positions
adaptive_row_scores(row, sort_index) ==
    LET sorted_preds == [a \in 1 .. Len(row) |-> row[sort_index[a]]]
        sorted_scores == [a \in 1 .. Len(row) |-> cumsum(sorted_preds, a)]
    IN  [k \in 1 .. Len(row) |->
            sorted_scores[CHOOSE a \in 1 .. Len(row) : sort_index[a] = k]]

\* AdaptiveMulticlassConformalCalibrator.nonconformity_scores: every tensor the
\* call can return (one per way of ordering tied classes)
nonconformity_scores_adaptive(preds) ==
    ProdSeq([i \in DOMAIN preds |->
        ProdSeq([j \in DOMAIN preds[i] |->
            {adaptive_row_scores(preds[i][j], p) : p \in argsort_descending(preds[i][j])}])])

\* self.nonconformity_scores of a multiclass calibrator, as the set of results
nonconformity_scores(kind, preds) ==
    IF kind = "conformal-adaptive" THEN nonconformity_scores_adaptive(preds)
    ELSE {nonconformity_scores_multiclass(preds)}

---------------------------------------------------------------------------
(* MulticlassConformalCalibrator.fit / apply (inherited by the adaptive    *)
(* calibrator).  `scores` is the result of self.nonconformity_scores(uncs).*)

\* the loop over the tasks j, with the thresholds gathered so far; a raise
\* leaves self.qhats the Python list built up to then
RECURSIVE multiclass_fit_loop(_, _, _, _, _, _)
multiclass_fit_loop(self, scores, targets, mask, j, acc) ==
    IF j > NumTasks(scores)
    THEN [status |-> "ok", warns |-> acc.warns, levels |-> acc.levels,
          self |-> [self EXCEPT !.qhats = [form |-> "tensor", vals |-> acc.qhats]]]
    ELSE LET rows == MaskedRows(mask, j)
             scores_j == [r \in 1 .. Len(rows) |->
                             scores[rows[r]][j][targets[rows[r]][j] + 1]]
             num_data == Len(rows)
             lvl == q_level(num_data, self.alpha)
             qhat == torch_quantile(scores_j, lvl.q)
             failed(status, warns) ==
                 [status |-> status, warns |-> warns, levels |-> acc.levels,
                  self |-> [self EXCEPT !.qhats = [form |-> "list", vals |-> acc.qhats]]]
         IN  IF lvl.status # "ok" THEN failed(lvl.status, acc.warns)
             ELSE IF qhat.status # "ok"
                  THEN failed(qhat.status, Append(acc.warns, lvl.warn))
             ELSE multiclass_fit_loop(self, scores, targets, mask, j + 1,
                      [qhats |-> Append(acc.qhats, qhat.v),
                       warns |-> Append(acc.warns, lvl.warn),
                       levels |-> Append(acc.levels, lvl.q)])

multiclass_fit(self, scores, targets, mask) ==
    multiclass_fit_loop(self, scores, targets, mask, 1,
                        [qhats |-> <<>>, warns |-> <<>>, levels |-> <<>>])

multiclass_apply_strict(self, preds, uncs, scores) ==
    IF self.qhats.form = "unset"
    THEN [status |-> "AttributeError", ret |-> <<>>]
    ELSE IF Len(self.qhats.vals) > NumTasks(uncs)
    THEN [status |-> "IndexError", ret |-> <<>>]
    ELSE [status |-> "ok",
          ret |-> <<preds,
                    [i \in DOMAIN uncs |->
                        [j \in DOMAIN uncs[i] |->
                            [k \in DOMAIN uncs[i][j] |->
                                IF j <= Len(self.qhats.vals)
                                   /\ scores[i][j][k] < self.qhats.vals[j]
                                THEN 1 ELSE 0]]]>>]

\* calibrated_preds starts as zeros; column j is set for every j of self.qhats
\* (a task of self.qhats beyond the tasks of uncs is an IndexError)
multiclass_apply(self, preds, uncs, scores) ==
    IF self.qhats.form = "unset"
    THEN [status |-> "AttributeError", ret |-> <<>>]
    ELSE IF Len(self.qhats.vals) > NumTasks(uncs)
    THEN [status |-> "IndexError", ret |-> <<>>]
    ELSE [status |-> "ok",
          ret |-> <<preds,
                    [i \in DOMAIN uncs |->
                        [j \in DOMAIN uncs[i] |->
                            [k \in DOMAIN uncs[i][j] |->
                                IF j <= Len(self.qhats.vals)
                                   /\ scores[i][j][k] <= self.qhats.vals[j]
                                THEN 1 ELSE 0]]]>>]

---------------------------------------------------------------------------
(* RegressionConformalCalibrator.fit / apply.  self.bounds is [-1/2, 1/2], *)
(* so the scores and the margins self.qhats are multiples of 1/2: the      *)
(* model holds them doubled (calibration_scores2, qhats2 = 2 * qhats).     *)

\* 2 * max(pred_bounds[0] - targets_j, targets_j - pred_bounds[1]) with
\* pred_bounds = preds_j + [-1/2, 1/2] * interval_j
calibration_score2(pred, interval, target) ==
    Max2(2 * pred - interval - 2 * target, 2 * target - 2 * pred - interval)

RECURSIVE regression_fit_loop(_, _, _, _, _, _, _)
regression_fit_loop(self, preds, uncs, targets, mask, j, acc) ==
    IF j > NumTasks(preds)
    THEN [status |-> "ok", warns |-> acc.warns, levels |-> acc.levels,
          self |-> [self EXCEPT !.qhats = [form |-> "tensor", vals |-> acc.qhats]]]
    ELSE LET rows == MaskedRows(mask, j)
             calibration_scores2 ==
                 [r \in 1 .. Len(rows) |->
                     calibration_score2(preds[rows[r]][j], uncs[rows[r]][j],
                                        targets[rows[r]][j])]
             num_data == Len(rows)
             lvl == q_level(num_data, self.alpha)
             qhat2 == torch_quantile(calibration_scores2, lvl.q)
             failed(status, warns) ==
                 [status |-> status, warns |-> warns, levels |-> acc.levels,
                  self |-> [self EXCEPT !.qhats = [form |-> "list", vals |-> acc.qhats]]]
         IN  IF lvl.status # "ok" THEN failed(lvl.status, acc.warns)
             ELSE IF qhat2.status # "ok"
                  THEN failed(qhat2.status, Append(acc.warns, lvl.warn))
             ELSE regression_fit_loop(self, preds, uncs, targets, mask, j + 1,
                      [qhats |-> Append(acc.qhats, qhat2.v),
                       warns |-> Append(acc.warns, lvl.warn),
                       levels |-> Append(acc.levels, lvl.q)])

\* a fit without `self.qhats = []`: the margins are appended to the old ones
regression_fit_appending(self, preds, uncs, targets, mask) ==
    regression_fit_loop(self, preds, uncs, targets, mask, 1,
                        [qhats |-> self.qhats.vals, warns |-> <<>>, levels |-> <<>>])

regression_fit(self, preds, uncs, targets, mask) ==
    regression_fit_loop(self, preds, uncs, targets, mask, 1,
                        [qhats |-> <<>>, warns |-> <<>>, levels |-> <<>>])

regression_apply_single(self, preds, uncs) ==
    IF self.qhats.form = "unset" THEN [status |-> "AttributeError", ret |-> <<>>]
    ELSE IF self.qhats.form = "list" THEN [status |-> "TypeError", ret |-> <<>>]
    ELSE LET Tq == Len(self.qhats.vals)
             Tu == NumTasks(uncs)
         IN  IF Tq # Tu /\ Tq # 1 /\ Tu # 1
             THEN [status |-> "RuntimeError", ret |-> <<>>]
             ELSE [status |-> "ok",
                   ret |-> <<preds,
                             [i \in DOMAIN uncs |->
                                 [j \in 1 .. Max2(Tq, Tu) |->
                                     uncs[i][IF Tu = 1 THEN 1 ELSE j]
                                     + self.qhats.vals[IF Tq = 1 THEN 1 ELSE j] \div 2]]>>]

\* cal_intervals = uncs + 2 * self.qhats, the (N, T) tensor and the (T,) tensor
\* broadcast against each other; a Python list (left by a fit that raised)
\* cannot be added to a tensor
regression_apply(self, preds, uncs) ==
    IF self.qhats.form = "unset" THEN [status |-> "AttributeError", ret |-> <<>>]
    ELSE IF self.qhats.form = "list" THEN [status |-> "TypeError", ret |-> <<>>]
    ELSE LET Tq == Len(self.qhats.vals)
             Tu == NumTasks(uncs)
         IN  IF Tq # Tu /\ Tq # 1 /\ Tu # 1
             THEN [status |-> "RuntimeError", ret |-> <<>>]
             ELSE [status |-> "ok",
                   ret |-> <<preds,
                             [i \in DOMAIN uncs |->
                                 [j \in 1 .. Max2(Tq, Tu) |->
                                     uncs[i][IF Tu = 1 THEN 1 ELSE j]
                                     + self.qhats.vals[IF Tq = 1 THEN 1 ELSE j]]]>>]

---------------------------------------------------------------------------
(* MultilabelConformalCalibrator.fit / apply                                *)

\* the rows i with torch.any(targets == label, dim=1), in order
RowsWith(targets, label) ==
    LET has(i) == \E j \in DOMAIN targets[i] : targets[i][j] = label
    IN  [r \in 1 .. Cardinality({i \in DOMAIN targets : has(i)}) |->
            CHOOSE i \in DOMAIN targets :
                has(i) /\ Cardinality({h \in 1 .. i : has(h)}) = r]

RECURSIVE reduce_row(_, _, _, _)
reduce_row(row, j, acc, takeMin) ==
    IF j > Len(row) THEN acc
    ELSE reduce_row(row, j + 1,
                    IF takeMin THEN Min2(acc, row[j]) ELSE Max2(acc, row[j]), takeMin)

\* torch.min(t, dim=1).values / torch.max(t, dim=1).values
reduce_dim1(t, takeMin) ==
    [r \in DOMAIN t |-> reduce_row(t[r], 2, t[r][1], takeMin)]

\* t.masked_fill(~mask, fill) for t of shape (R, T) and mask of shape (N, T):
\* the two are broadcast against each other, so a single row of t is repeated
\* for the N rows of the mask, and shapes that do not broadcast raise
masked_fill_not(t, mask, fill) ==
    LET R == Len(t)
        N == Len(mask)
    IN  IF R = N
        THEN [status |-> "ok",
              v |-> [r \in 1 .. R |->
                        [j \in DOMAIN t[r] |-> IF mask[r][j] THEN t[r][j] ELSE fill]]]
        ELSE IF R = 1
        THEN [status |-> "ok",
              v |-> [i \in 1 .. N |->
                        [j \in DOMAIN t[1] |-> IF mask[i][j] THEN t[1][j] ELSE fill]]]
        ELSE IF N = 1
        THEN [status |-> "ok",
              v |-> [r \in 1 .. R |->
                        [j \in DOMAIN t[r] |-> IF mask[1][j] THEN t[r][j] ELSE fill]]]
        ELSE [status |-> "RuntimeError", v |-> <<>>]

\* lines 129-137 (label 0, +inf, min) and lines 139-147 (label 1, -inf, max):
\* scores * index.float() + where(index, 0, fill), masked, reduced per row
calibration_scores(uncs, targets, mask, label, fill, takeMin) ==
    LET has == RowsWith(targets, label)
        scores == nonconformity_scores_multilabel([r \in 1 .. Len(has) |-> uncs[has[r]]])
        masked_scores ==
            [r \in 1 .. Len(has) |->
                [j \in DOMAIN scores[r] |->
                    IF targets[has[r]][j] = label THEN scores[r][j] ELSE fill]]
        filled == masked_fill_not(masked_scores, mask, fill)
    IN  IF filled.status # "ok" THEN filled
        ELSE [status |-> "ok", v |-> reduce_dim1(filled.v, takeMin)]

multilabel_fit_unchecked(self, uncs, targets, mask) ==
         LET cin == calibration_scores(uncs, targets, mask, 0, PosInf, TRUE)
             cout == calibration_scores(uncs, targets, mask, 1, NegInf, FALSE)
             a == self.alpha
             tout == torch_quantile(cout.v, <<2 * a[2] - a[1], 2 * a[2]>>)
             tin == torch_quantile(cin.v, <<a[1], 2 * a[2]>>)
         IN  IF cin.status # "ok" THEN [status |-> cin.status, self |-> self]
             ELSE IF cout.status # "ok" THEN [status |-> cout.status, self |-> self]
             ELSE IF tout.status # "ok" THEN [status |-> tout.status, self |-> self]
             ELSE IF tin.status # "ok"
                  THEN [status |-> tin.status,
                        self |-> [self EXCEPT !.tout = [set |-> TRUE, v |-> tout.v]]]
             ELSE [status |-> "ok",
                   self |-> [self EXCEPT !.tout = [set |-> TRUE, v |-> tout.v],
                                         !.tin = [set |-> TRUE, v |-> tin.v]]]

\* the ValueError comes first; self.tout is assigned before the quantile of
\* self.tin is taken
multilabel_fit(self, uncs, targets, mask) ==
    IF NumTasks(targets) < 2 THEN [status |-> "ValueError", self |-> self]
    ELSE LET cin == calibration_scores(uncs, targets, mask, 0, PosInf, TRUE)
             cout == calibration_scores(uncs, targets, mask, 1, NegInf, FALSE)
             a == self.alpha
             tout == torch_quantile(cout.v, <<2 * a[2] - a[1], 2 * a[2]>>)
             tin == torch_quantile(cin.v, <<a[1], 2 * a[2]>>)
         IN  IF cin.status # "ok" THEN [status |-> cin.status, self |-> self]
             ELSE IF cout.status # "ok" THEN [status |-> cout.status, self |-> self]
             ELSE IF tout.status # "ok" THEN [status |-> tout.status, self |-> self]
             ELSE IF tin.status # "ok"
                  THEN [status |-> tin.status,
                        self |-> [self EXCEPT !.tout = [set |-> TRUE, v |-> tout.v]]]
             ELSE [status |-> "ok",
                   self |-> [self EXCEPT !.tout = [set |-> TRUE, v |-> tout.v],
                                         !.tin = [set |-> TRUE, v |-> tin.v]]]

multilabel_apply_swapped(self, preds, uncs) ==
    IF ~self.tin.set \/ ~self.tout.set
    THEN [status |-> "AttributeError", ret |-> <<>>]
    ELSE LET scores == nonconformity_scores_multilabel(uncs)
             T == NumTasks(uncs)
         IN  [status |-> "ok",
              ret |-> <<preds,
                        [i \in DOMAIN uncs |->
                            [c \in 1 .. 2 * T |->
                                IF c <= T
                                THEN (IF scores[i][c] <= self.tout.v THEN 1 ELSE 0)
                                ELSE (IF scores[i][c - T] <= self.tin.v THEN 1 ELSE 0)]]>>]

\* torch.cat((cal_preds_in, cal_preds_out), dim=1): columns 1 .. T are the
\* in-set indicators, columns T+1 .. 2T the out-set indicators
multilabel_apply(self, preds, uncs) ==
    IF ~self.tin.set \/ ~self.tout.set
    THEN [status |-> "AttributeError", ret |-> <<>>]
    ELSE LET scores == nonconformity_scores_multilabel(uncs)
             T == NumTasks(uncs)
         IN  [status |-> "ok",
              ret |-> <<preds,
                        [i \in DOMAIN uncs |->
                            [c \in 1 .. 2 * T |->
                                IF c <= T
                                THEN (IF scores[i][c] <= self.tin.v THEN 1 ELSE 0)
                                ELSE (IF scores[i][c - T] <= self.tout.v THEN 1 ELSE 0)]]>>]

---------------------------------------------------------------------------
(* The calibrators whose bodies are `...; return`: fit and apply return    *)
(* None and touch no attribute                                             *)

stub_fit(self) == [status |-> "ok", self |-> self]
stub_apply(self, preds, uncs) == [status |-> "ok", ret |-> <<>>]

---------------------------------------------------------------------------
(* Inputs of the calls                                                     *)

\* the alphas a caller may pass: the multiples of 1/AlphaDen from below 0 to
\* above 1
Alphas == {<<a, AlphaDen>> : a \in (0 - 1) .. (AlphaDen + 1)}

Tensors(n, t, S) == [1 .. n -> [1 .. t -> S]]

Field(t, f) == [i \in DOMAIN t |-> [j \in DOMAIN t[i] |-> t[i][j][f]]]

\* shapes (N, T) of the calibration and test tensors of any call
Shapes == {<<1, 1>>, <<2, 1>>, <<1, 2>>}

\* shapes of the calibration tensors a freshly built instance is fitted on
FirstShapes == Shapes \cup {<<n, 1>> : n \in 1 .. MaxRows}
FirstMultilabelShapes == Shapes \cup {<<2, 2>>}

\* class probabilities of one (datapoint, task) in a common unit: the two
\* classes share 2 units
Classes == 0 .. 1
ProbRows == {<<0, 2>>, <<1, 1>>, <<2, 0>>}

MulticlassCells == [unc : ProbRows, target : Classes, mask : BOOLEAN]

\* the regression fit reads preds and targets through their difference only:
\* the target lies below, at or above the prediction
RegressionCells == [pred : {1}, unc : 0 .. 1, target : 0 .. 2, mask : BOOLEAN]

MultilabelCells == [unc : 0 .. 1, target : 0 .. 1, mask : BOOLEAN]

\* the predictions handed to fit and apply of the classification calibrators,
\* which only pass them through
NoPreds(n, t) == [i \in 1 .. n |-> [j \in 1 .. t |-> 0]]

---------------------------------------------------------------------------
(* The calls.  `call` is the activation in progress: a call is made when   *)
(* none is, runs to its end in one step, and Return hands its outcome to   *)
(* the caller.                                                             *)

NoCall ==
    [op |-> "none", kind |-> "none", status |-> "ok", alpha |-> <<0, 1>>, preds |-> <<>>, uncs |-> <<>>,
     targets |-> <<>>, mask |-> <<>>, scores |-> <<>>, ret |-> <<>>,
     warns |-> <<>>, levels |-> <<>>, fresh |-> FALSE,
     num_data |-> 0, turn |-> 0, covered |-> 0, stored |-> 0]

Idle == call.op = "none"

\* no fit was called on the instance (the calls of `cal` so far are apply calls)
Unfitted(self) == ~self.fit_called

\* the number of thresholds the instance holds from a completed fit: the
\* length of the tensor self.qhats, or 2 for self.tin and self.tout
Stored(self) ==
    IF self.qhats.form = "tensor" THEN Len(self.qhats.vals)
    ELSE IF self.tin.set /\ self.tout.set THEN 2
    ELSE 0

Init == cal = NoInstance /\ call = NoCall

\* cls(alpha) for a conformal calibrator class
ConstructConformal(kinds) ==
    /\ Idle
    /\ \E kind \in kinds, alpha \in Alphas :
        LET r == ConformalInit(kind, alpha)
        IN  /\ cal' = r.self
            /\ call' = [NoCall EXCEPT !.op = "init", !.kind = kind, !.status = r.status,
                                      !.alpha = alpha]

\* cls() for the other registered calibrators
ConstructStub ==
    /\ Idle
    /\ \E kind \in StubKinds :
        LET r == StubInit(kind)
        IN  /\ cal' = r.self
            /\ call' = [NoCall EXCEPT !.op = "init", !.kind = kind, !.status = r.status]

FitMulticlass(shapes) ==
    /\ Idle
    /\ cal.kind \in MulticlassKinds
    /\ \E s \in shapes :
       \E cells \in Tensors(s[1], s[2], MulticlassCells) :
       \E scores \in nonconformity_scores(cal.kind, Field(cells, "unc")) :
          LET r == multiclass_fit(cal, scores, Field(cells, "target"), Field(cells, "mask"))
          IN  /\ cal' = [r.self EXCEPT !.fit_called = TRUE]
              /\ call' = [NoCall EXCEPT !.op = "fit", !.status = r.status,
                                        !.preds = NoPreds(s[1], s[2]),
                                        !.uncs = Field(cells, "unc"),
                                        !.targets = Field(cells, "target"),
                                        !.mask = Field(cells, "mask"),
                                        !.scores = scores,
                                        !.warns = r.warns, !.levels = r.levels,
                                        !.fresh = Unfitted(cal),
                                        !.stored = Stored(cal)]

ApplyMulticlass(shapes) ==
    /\ Idle
    /\ cal.kind \in MulticlassKinds
    /\ \E s \in shapes :
       \E uncs \in Tensors(s[1], s[2], ProbRows) :
       \E scores \in nonconformity_scores(cal.kind, uncs) :
          LET r == multiclass_apply(cal, NoPreds(s[1], s[2]), uncs, scores)
          IN  /\ cal' = cal
              /\ call' = [NoCall EXCEPT !.op = "apply", !.status = r.status,
                                        !.preds = NoPreds(s[1], s[2]),
                                        !.uncs = uncs, !.scores = scores,
                                        !.ret = r.ret, !.fresh = Unfitted(cal)]

FitRegression(shapes) ==
    /\ Idle
    /\ cal.kind = "conformal-regression"
    /\ \E s \in shapes :
       \E cells \in Tensors(s[1], s[2], RegressionCells) :
          LET r == regression_fit(cal, Field(cells, "pred"), Field(cells, "unc"),
                                  Field(cells, "target"), Field(cells, "mask"))
          IN  /\ cal' = [r.self EXCEPT !.fit_called = TRUE]
              /\ call' = [NoCall EXCEPT !.op = "fit", !.status = r.status,
                                        !.preds = Field(cells, "pred"),
                                        !.uncs = Field(cells, "unc"),
                                        !.targets = Field(cells, "target"),
                                        !.mask = Field(cells, "mask"),
                                        !.warns = r.warns, !.levels = r.levels,
                                        !.fresh = Unfitted(cal),
                                        !.stored = Stored(cal)]

\* an apply that scales self.qhats in place (self.qhats *= 2) before adding
ApplyRegression_inplace(shapes) ==
    /\ Idle
    /\ cal.kind = "conformal-regression"
    /\ \E s \in shapes :
       \E cells \in Tensors(s[1], s[2], [pred : 0 .. 1, unc : 0 .. 1]) :
          LET r == regression_apply(cal, Field(cells, "pred"), Field(cells, "unc"))
          IN  /\ cal' = IF r.status = "ok"
                        THEN [cal EXCEPT !.qhats.vals = [j \in DOMAIN @ |-> 2 * @[j]]]
                        ELSE cal
              /\ call' = [NoCall EXCEPT !.op = "apply", !.status = r.status,
                                        !.preds = Field(cells, "pred"),
                                        !.uncs = Field(cells, "unc"),
                                        !.ret = r.ret, !.fresh = Unfitted(cal)]

ApplyRegression(shapes) ==
    /\ Idle
    /\ cal.kind = "conformal-regression"
    /\ \E s \in shapes :
       \E cells \in Tensors(s[1], s[2], [pred : 0 .. 1, unc : 0 .. 1]) :
          LET r == regression_apply(cal, Field(cells, "pred"), Field(cells, "unc"))
          IN  /\ cal' = cal
              /\ call' = [NoCall EXCEPT !.op = "apply", !.status = r.status,
                                        !.preds = Field(cells, "pred"),
                                        !.uncs = Field(cells, "unc"),
                                        !.ret = r.ret, !.fresh = Unfitted(cal)]

FitMultilabel(shapes) ==
    /\ Idle
    /\ cal.kind = "conformal-multilabel"
    /\ \E s \in shapes :
       \E cells \in Tensors(s[1], s[2], MultilabelCells) :
          LET r == multilabel_fit(cal, Field(cells, "unc"), Field(cells, "target"),
                                  Field(cells, "mask"))
          IN  /\ cal' = [r.self EXCEPT !.fit_called = TRUE]
              /\ call' = [NoCall EXCEPT !.op = "fit", !.status = r.status,
                                        !.preds = NoPreds(s[1], s[2]),
                                        !.uncs = Field(cells, "unc"),
                                        !.targets = Field(cells, "target"),
                                        !.mask = Field(cells, "mask"),
                                        !.fresh = Unfitted(cal),
                                        !.stored = Stored(cal)]

ApplyMultilabel(shapes) ==
    /\ Idle
    /\ cal.kind = "conformal-multilabel"
    /\ \E s \in shapes :
       \E cells \in Tensors(s[1], s[2], [pred : 0 .. 1, unc : 0 .. 1]) :
          LET r == multilabel_apply(cal, Field(cells, "pred"), Field(cells, "unc"))
          IN  /\ cal' = cal
              /\ call' = [NoCall EXCEPT !.op = "apply", !.status = r.status,
                                        !.preds = Field(cells, "pred"),
                                        !.uncs = Field(cells, "unc"),
                                        !.ret = r.ret, !.fresh = Unfitted(cal)]

FitStub ==
    /\ Idle
    /\ cal.kind \in StubKinds
    /\ LET r == stub_fit(cal)
       IN  /\ cal' = [r.self EXCEPT !.fit_called = TRUE]
           /\ call' = [NoCall EXCEPT !.op = "fit", !.status = r.status,
                                     !.fresh = Unfitted(cal),
                                        !.stored = Stored(cal)]

ApplyStub ==
    /\ Idle
    /\ cal.kind \in StubKinds
    /\ LET r == stub_apply(cal, <<>>, <<>>)
       IN  /\ cal' = cal
           /\ call' = [NoCall EXCEPT !.op = "apply", !.status = r.status,
                                     !.ret = r.ret, !.fresh = Unfitted(cal)]

\* the call returns to its caller
Return ==
    /\ ~Idle
    /\ call' = NoCall
    /\ cal' = cal

Next ==
    \/ ConstructConformal(ConformalKinds)
    \/ ConstructStub
    \/ FitMulticlass(Shapes)
    \/ ApplyMulticlass(Shapes)
    \/ FitRegression(Shapes)
    \/ ApplyRegression(Shapes)
    \/ FitMultilabel(Shapes)
    \/ ApplyMultilabel(Shapes)
    \/ FitStub
    \/ ApplyStub
    \/ Return

Spec == Init /\ [][Next]_vars

---------------------------------------------------------------------------
(* One instance of one calibrator, fitted once on a larger calibration set  *)
(* and then applied                                                         *)

NewMulticlass == ConstructConformal({"conformal-multiclass"})
FirstFitMulticlass == Unfitted(cal) /\ FitMulticlass(FirstShapes)
NextMulticlass ==
    \/ NewMulticlass
    \/ FirstFitMulticlass
    \/ ApplyMulticlass(FirstShapes)
    \/ Return
SpecMulticlass == Init /\ [][NextMulticlass]_vars

NewRegression == ConstructConformal({"conformal-regression"})
FirstFitRegression == Unfitted(cal) /\ FitRegression(FirstShapes)
NextRegression ==
    \/ NewRegression
    \/ FirstFitRegression
    \/ ApplyRegression(FirstShapes)
    \/ Return
SpecRegression == Init /\ [][NextRegression]_vars

NewMultilabel == ConstructConformal({"conformal-multilabel"})
FirstFitMultilabel == Unfitted(cal) /\ FitMultilabel(FirstMultilabelShapes)
NextMultilabel ==
    \/ NewMultilabel
    \/ FirstFitMultilabel
    \/ ApplyMultilabel(FirstMultilabelShapes)
    \/ Return
SpecMultilabel == Init /\ [][NextMultilabel]_vars

\* the three calibrators that fit per task on the unmasked datapoints
NewPerTask ==
    ConstructConformal({"conformal-multiclass", "conformal-adaptive", "conformal-regression"})
\* three datapoints of one task, or one datapoint of two tasks
PerTaskShapes == {<<3, 1>>, <<1, 2>>}
PerTaskFitMulticlass == Unfitted(cal) /\ FitMulticlass(PerTaskShapes)
PerTaskFitRegression == Unfitted(cal) /\ FitRegression(PerTaskShapes)
NextPerTask ==
    \/ NewPerTask
    \/ PerTaskFitMulticlass
    \/ PerTaskFitRegression
    \/ Return
SpecPerTask == Init /\ [][NextPerTask]_vars

---------------------------------------------------------------------------
(* The quantile level on its own: the branch of fit that computes q_level  *)
(* from self.alpha and the number of unmasked datapoints of a task         *)

NewLevelUser == ConstructConformal({"conformal-multiclass", "conformal-regression"})

QuantileLevel ==
    /\ Idle
    /\ cal.kind \in {"conformal-multiclass", "conformal-regression"}
    /\ \E n \in 0 .. MaxCount :
        LET r == q_level(n, cal.alpha)
        IN  /\ cal' = cal
            /\ call' = [NoCall EXCEPT !.op = "q_level", !.status = r.status,
                                      !.num_data = n, !.levels = <<r.q>>,
                                      !.warns = <<r.warn>>]

LevelFitMulticlass ==
    Unfitted(cal) /\ cal.kind = "conformal-multiclass" /\ FitMulticlass(Shapes)
LevelFitRegression == Unfitted(cal) /\ FitRegression(Shapes)

NextLevel ==
    \/ NewLevelUser
    \/ QuantileLevel
    \/ LevelFitMulticlass
    \/ LevelFitRegression
    \/ Return
SpecLevel == Init /\ [][NextLevel]_vars

---------------------------------------------------------------------------
(* Coverage experiments: each datapoint of a dataset is in turn the test   *)
(* point of a new calibrator fitted on the other datapoints                *)

RemoveAt(t, i) == SubSeq(t, 1, i - 1) \o SubSeq(t, i + 1, Len(t))

AllTrue(n, t) == [i \in 1 .. n |-> [j \in 1 .. t |-> TRUE]]

ValidAlphas == {a \in Alphas : 0 <= a[1] /\ a[1] <= a[2]}

\* one task, two classes that share MaxPoints - 1 units of probability
CoverageCells ==
    [unc : {<<v, MaxPoints - 1 - v>> : v \in 0 .. MaxPoints - 1}, target : Classes]

TrueClassProb(c) == c.unc[c.target + 1]

MulticlassCoverageBegin ==
    /\ Idle
    /\ \E alpha \in ValidAlphas, n \in 2 .. MaxPoints :
       \E data \in [1 .. n -> CoverageCells] :
          /\ \A i, k \in 1 .. n : i # k => TrueClassProb(data[i]) # TrueClassProb(data[k])
          /\ cal' = NoInstance
          /\ call' = [NoCall EXCEPT !.op = "coverage", !.alpha = alpha,
                                    !.uncs = [i \in 1 .. n |-> <<data[i].unc>>],
                                    !.targets = [i \in 1 .. n |-> <<data[i].target>>],
                                    !.mask = AllTrue(n, 1)]

\* is the true class of the held-out datapoint in its prediction set
MulticlassTurn(alpha, uncs, targets, i) ==
    LET new == ConformalInit("conformal-multiclass", alpha).self
        fit == multiclass_fit(new, nonconformity_scores_multiclass(RemoveAt(uncs, i)),
                              RemoveAt(targets, i), AllTrue(Len(uncs) - 1, 1))
        out == multiclass_apply(fit.self, NoPreds(1, 1), <<uncs[i]>>,
                                nonconformity_scores_multiclass(<<uncs[i]>>))
    IN  [self |-> fit.self, status |-> out.status,
         hit |-> out.status = "ok" /\ out.ret[2][1][1][targets[i][1] + 1] = 1]

MulticlassCoverageTurn ==
    /\ call.op = "coverage"
    /\ cal.kind \in {"none", "conformal-multiclass"}
    /\ call.turn < Len(call.uncs)
    /\ LET r == MulticlassTurn(call.alpha, call.uncs, call.targets, call.turn + 1)
       IN  /\ cal' = [r.self EXCEPT !.fit_called = TRUE]
           /\ call' = [call EXCEPT !.turn = @ + 1, !.status = r.status,
                                   !.covered = IF r.hit THEN @ + 1 ELSE @]

NextCoverage == MulticlassCoverageBegin \/ MulticlassCoverageTurn \/ Return
SpecCoverage == Init /\ [][NextCoverage]_vars

\* two labels, one of them 1 and the other 0, every entry unmasked
LabelRows == [unc : [1 .. 2 -> 0 .. 1], target : {<<0, 1>>, <<1, 0>>}]

MultilabelCoverageBegin ==
    /\ Idle
    /\ \E alpha \in ValidAlphas, n \in 2 .. MaxLabelPoints :
       \E data \in [1 .. n -> LabelRows] :
          /\ cal' = NoInstance
          /\ call' = [NoCall EXCEPT !.op = "label_coverage", !.alpha = alpha,
                                    !.uncs = [i \in 1 .. n |-> data[i].unc],
                                    !.targets = [i \in 1 .. n |-> data[i].target],
                                    !.mask = AllTrue(n, 2)]

\* does the true label set of the held-out datapoint lie between its in-set
\* and its out-set
MultilabelTurn(alpha, uncs, targets, i) ==
    LET new == ConformalInit("conformal-multilabel", alpha).self
        fit == multilabel_fit(new, RemoveAt(uncs, i), RemoveAt(targets, i),
                              AllTrue(Len(uncs) - 1, 2))
        out == multilabel_apply(fit.self, NoPreds(1, 2), <<uncs[i]>>)
        T == Len(uncs[i])
    IN  [self |-> fit.self, status |-> out.status,
         hit |-> /\ out.status = "ok"
                 /\ \A j \in 1 .. T : out.ret[2][1][j] = 1 => targets[i][j] = 1
                 /\ \A j \in 1 .. T : targets[i][j] = 1 => out.ret[2][1][T + j] = 1]

MultilabelCoverageTurn ==
    /\ call.op = "label_coverage"
    /\ call.turn < Len(call.uncs)
    /\ LET r == MultilabelTurn(call.alpha, call.uncs, call.targets, call.turn + 1)
       IN  /\ cal' = [r.self EXCEPT !.fit_called = TRUE]
           /\ call' = [call EXCEPT !.turn = @ + 1, !.status = r.status,
                                   !.covered = IF r.hit THEN @ + 1 ELSE @]

NextLabelCoverage == MultilabelCoverageBegin \/ MultilabelCoverageTurn \/ Return
SpecLabelCoverage == Init /\ [][NextLabelCoverage]_vars

---------------------------------------------------------------------------
(* Properties                                                              *)

Count(xs, P(_)) == Cardinality({i \in DOMAIN xs : P(xs[i])})

\* v is the upper-interpolated empirical quantile at level q of the values
\* xs[i] (i over any finite index set): with r the least whole rank
\* >= q * (n - 1), at most r values lie below v and more than r values lie
\* at or below it
IsUpperQuantile(v, xs, q) ==
    LET n == Cardinality(DOMAIN xs)
    IN  /\ n >= 1
        /\ \E r \in 0 .. n - 1 :
            /\ r * q[2] >= q[1] * (n - 1)
            /\ (r - 1) * q[2] < q[1] * (n - 1)
            /\ Count(xs, LAMBDA x : x < v) <= r
            /\ r < Count(xs, LAMBDA x : x <= v)

\* the level the claims state for n datapoints and error rate alpha
IsConformalLevel(q, n, alpha) ==
    LET x == (n + 1) * (alpha[2] - alpha[1])
    IN  /\ q[2] > 0
        /\ alpha[1] * (n + 1) >= alpha[2] =>
              \E k \in 0 .. n + 1 :
                  /\ k * alpha[2] >= x
                  /\ (k - 1) * alpha[2] < x
                  /\ q[1] * n = k * q[2]
        /\ alpha[1] * (n + 1) < alpha[2] => q[1] = q[2]

UnmaskedCount(mask, j) == Cardinality({i \in DOMAIN mask : mask[i][j]})

Unmasked(mask, j) == {i \in DOMAIN mask : mask[i][j]}

C3_MarginalCoverage ==
    LET N == Len(call.uncs)
        a == call.alpha
    IN  (call.op = "coverage" /\ call.turn = N /\ a[1] * N >= a[2]) =>
            /\ (a[2] - a[1]) * N <= call.covered * a[2]
            /\ call.covered * a[2] <= (a[2] - a[1]) * N + a[2]

\* the doubled regression score of calibration point i of task j:
\* max((pred - unc/2) - target, target - (pred + unc/2)), times 2
DoubledScore(preds, uncs, targets, i, j) ==
    Max2(2 * (preds[i][j] - targets[i][j]) - uncs[i][j],
         2 * (targets[i][j] - preds[i][j]) - uncs[i][j])

\* test_RegressionConformalCalibrator, second case: torch.arange(100)
TestSize == 100
TestPreds == [i \in 1 .. TestSize |-> <<i - 1>>]
TestTargets == [i \in 1 .. TestSize |-> <<i + 9>>]
TestZeros == [i \in 1 .. TestSize |-> <<0>>]
TestWidths ==
    regression_apply(
        regression_fit(NewInstance("conformal-regression", <<1, 10>>),
                       TestPreds, TestZeros, TestTargets, AllTrue(TestSize, 1)).self,
        TestPreds, TestZeros).ret[2]

RowsContaining(targets, label) ==
    {i \in DOMAIN targets : \E j \in DOMAIN targets[i] : targets[i][j] = label}

\* the scores -uncs of the unmasked entries of row i that carry the label
LabelScores(uncs, targets, mask, i, label) ==
    {0 - uncs[i][j] : j \in {k \in DOMAIN targets[i] : targets[i][k] = label /\ mask[i][k]}}

RowMin(S) == CHOOSE x \in S : \A y \in S : x <= y
RowMax(S) == CHOOSE x \in S : \A y \in S : x >= y

\* every row that contains the label has an unmasked entry with that label
LabelUnmasked(targets, mask, label) ==
    \A i \in RowsContaining(targets, label) :
        \E j \in DOMAIN targets[i] : targets[i][j] = label /\ mask[i][j]

\* C5: the multilabel fit stores as t_in the upper-interpolated alpha/2
\* quantile of the per-row minima of -uncs over the zero-labeled, unmasked
\* entries of the rows that contain a zero label, and as t_out the
\* upper-interpolated (1 - alpha/2) quantile of the per-row maxima of -uncs
\* over the one-labeled, unmasked entries of the rows that contain a one label
\* (stated for the fits in which each such row has such an entry)
C5_MultilabelThresholds ==
    (/\ call.op = "fit" /\ call.status = "ok"
     /\ LabelUnmasked(call.targets, call.mask, 0)
     /\ LabelUnmasked(call.targets, call.mask, 1)) =>
        /\ IsUpperQuantile(cal.tin.v,
              [i \in RowsContaining(call.targets, 0) |->
                  RowMin(LabelScores(call.uncs, call.targets, call.mask, i, 0))],
              <<cal.alpha[1], 2 * cal.alpha[2]>>)
        /\ IsUpperQuantile(cal.tout.v,
              [i \in RowsContaining(call.targets, 1) |->
                  RowMax(LabelScores(call.uncs, call.targets, call.mask, i, 1))],
              <<2 * cal.alpha[2] - cal.alpha[1], 2 * cal.alpha[2]>>)

ZeroScore(uncs, targets, i) ==
    RowMin({0 - uncs[i][j] : j \in {k \in DOMAIN targets[i] : targets[i][k] = 0}})

\* C7: for m+1 fully unmasked datapoints that each have a 0 and a 1 label,
\* with each datapoint in turn the test point of a multilabel calibrator
\* fitted on the other m, the fraction of turns in which the in-set is within
\* the true labels and the true labels within the out-set is at least
\* 1 - alpha (stated for alpha > 0 and datapoints whose zero-label scores are
\* pairwise distinct)
C7_MultilabelCoverage ==
    LET N == Len(call.uncs)
        a == call.alpha
    IN  (/\ call.op = "label_coverage" /\ call.turn = N
         /\ a[1] > 0
         /\ \A i, k \in 1 .. N :
               i # k => ZeroScore(call.uncs, call.targets, i)
                          # ZeroScore(call.uncs, call.targets, k)) =>
            (a[2] - a[1]) * N <= call.covered * a[2]

\* C8: a conformal calibrator built with alpha outside [0, 1] fails with a
\* ValueError and yields no instance; every alpha in [0, 1], 0 and 1
\* included, yields an instance with that alpha
C8_AlphaValidated ==
    (call.op = "init" /\ call.kind \in ConformalKinds) =>
        IF 0 <= call.alpha[1] /\ call.alpha[1] <= call.alpha[2]
        THEN call.status = "ok" /\ cal.kind = call.kind /\ cal.alpha = call.alpha
        ELSE call.status = "ValueError" /\ cal = NoInstance

\* the adaptive calibrator was refused an alpha above 1
C8_Witness ==
    /\ call.op = "init"
    /\ call.kind = "conformal-adaptive"
    /\ call.alpha[1] > call.alpha[2]
    /\ call.status = "ValueError"

\* C9: a multilabel fit on targets of fewer than 2 tasks raises ValueError
\* and leaves t_in and t_out as they were
C9_MultilabelTaskCheck ==
    [][(call'.op = "fit" /\ cal.kind = "conformal-multilabel"
            /\ NumTasks(call'.targets) < 2) =>
          (call'.status = "ValueError" /\ cal'.tin = cal.tin /\ cal'.tout = cal.tout)]_vars

\* a fitted multilabel calibrator refused targets of one task
C9_Witness ==
    /\ call.op = "fit"
    /\ cal.kind = "conformal-multilabel"
    /\ NumTasks(call.targets) = 1
    /\ call.status = "ValueError"
    /\ cal.tin.set /\ cal.tout.set

\* C10: apply on an instance of any registered calibrator on which no fit was
\* called fails with an error
C10_ApplyBeforeFitFails ==
    (call.op = "apply" /\ call.fresh /\ cal.kind \in UncertaintyCalibratorRegistry) =>
        call.status # "ok"

\* the parameters a conformal calibrator stores
Fitted(self) == <<self.alpha, self.tin, self.tout, self.qhats>>

\* what apply returns for the instance and the arguments of the call
ApplyResult(self, c) ==
    IF self.kind \in MulticlassKinds
    THEN multiclass_apply(self, c.preds, c.uncs, c.scores)
    ELSE IF self.kind = "conformal-regression"
    THEN regression_apply(self, c.preds, c.uncs)
    ELSE multilabel_apply(self, c.preds, c.uncs)

\* C11: an apply of a conformal calibrator leaves alpha and the stored
\* parameters (t_in, t_out, the per-task thresholds) as they were, and what it
\* returns is determined by these parameters and its arguments alone, so the
\* same arguments give the same result after any other apply calls
C11_ApplyKeepsFittedState ==
    [][(call'.op = "apply" /\ cal.kind \in ConformalKinds) =>
          /\ Fitted(cal') = Fitted(cal)
          /\ cal'.kind = cal.kind
          /\ call'.status = ApplyResult(cal, call').status
          /\ call'.ret = ApplyResult(cal, call').ret]_vars

\* a fitted regression calibrator with a margin above 0 returned widths and
\* still holds its margin
C11_Witness ==
    /\ call.op = "apply"
    /\ call.status = "ok"
    /\ cal.kind = "conformal-regression"
    /\ cal.qhats.form = "tensor"
    /\ Len(cal.qhats.vals) = 1
    /\ cal.qhats.vals[1] > 0
    /\ \E i \in DOMAIN call.uncs : call.ret[2][i][1] = call.uncs[i][1] + cal.qhats.vals[1]

\* what fit does to the instance for the arguments of the call
FitResult(self, c) ==
    IF self.kind \in MulticlassKinds
    THEN multiclass_fit(self, c.scores, c.targets, c.mask)
    ELSE IF self.kind = "conformal-regression"
    THEN regression_fit(self, c.preds, c.uncs, c.targets, c.mask)
    ELSE multilabel_fit(self, c.uncs, c.targets, c.mask)

\* the apply calls on one test point of T tasks
TestCalls(kind, T) ==
    IF kind \in MulticlassKinds
    THEN UNION {{[preds |-> NoPreds(1, T), uncs |-> u, scores |-> sc] :
                    sc \in nonconformity_scores(kind, u)} : u \in Tensors(1, T, ProbRows)}
    ELSE {[preds |-> NoPreds(1, T), uncs |-> u, scores |-> <<>>] : u \in Tensors(1, T, 0 .. 1)}

\* C12: a fit that completes leaves exactly the parameters that a new
\* instance with the same alpha holds after the same fit, whatever the
\* instance held before (nothing, thresholds of as many or of another number
\* of tasks, the remains of a failed fit), and every apply then returns what
\* that new instance returns
C12_FitReplacesState ==
    [][(call'.op = "fit" /\ call'.status = "ok" /\ cal.kind \in ConformalKinds) =>
          LET new == FitResult(NewInstance(cal.kind, cal.alpha), call').self
          IN  /\ Fitted(cal') = Fitted(new)
              /\ cal'.kind = cal.kind
              /\ \A T \in 1 .. 2 : \A c \in TestCalls(cal.kind, T) :
                    ApplyResult(cal', c) = ApplyResult(new, c)]_vars

\* a regression calibrator that held the margins of one number of tasks was
\* fitted again on another number of tasks
C12_Witness ==
    /\ call.op = "fit"
    /\ call.status = "ok"
    /\ cal.kind = "conformal-regression"
    /\ call.stored >= 1
    /\ Stored(cal) >= 1
    /\ call.stored # Stored(cal)

\* the score rows self.nonconformity_scores can give a row of class
\* probabilities
RowScores(kind, row) ==
    IF kind = "conformal-adaptive"
    THEN {adaptive_row_scores(row, p) : p \in argsort_descending(row)}
    ELSE {[k \in DOMAIN row |-> 0 - row[k]]}

\* the calibration inputs with the mask of call c that agree with the inputs
\* of c wherever the mask is true; at the other positions they hold any value
\* a calibration input can hold
SameWhereUnmasked(kind, c) ==
    LET N == Len(c.mask)
        T == NumTasks(c.mask)
        here(i, j) ==
            IF kind = "conformal-regression"
            THEN IF c.mask[i][j]
                 THEN {[pred |-> c.preds[i][j], unc |-> c.uncs[i][j],
                        target |-> c.targets[i][j]]}
                 ELSE [pred : {1}, unc : 0 .. 1, target : 0 .. 2]
            ELSE IF c.mask[i][j]
                 THEN {[pred |-> 0, unc |-> c.uncs[i][j], target |-> c.targets[i][j],
                        score |-> c.scores[i][j]]}
                 ELSE UNION {[pred : {0}, unc : {u}, target : Classes,
                              score : RowScores(kind, u)] : u \in ProbRows}
        cells == ProdSeq([i \in 1 .. N |-> ProdSeq([j \in 1 .. T |-> here(i, j)])])
    IN  {[preds |-> Field(x, "pred"), uncs |-> Field(x, "unc"),
          targets |-> Field(x, "target"), mask |-> c.mask,
          scores |-> IF kind = "conformal-regression" THEN <<>> ELSE Field(x, "score")] :
            x \in cells}

\* C13: the fit of the multiclass, the adaptive and the regression calibrator
\* has the same outcome and stores the same threshold for every task on any
\* two inputs with the same mask that agree wherever the mask is true
C13_MaskedEntriesIgnored ==
    (call.op = "fit"
        /\ cal.kind \in {"conformal-multiclass", "conformal-adaptive", "conformal-regression"}) =>
        \A other \in SameWhereUnmasked(cal.kind, call) :
            LET r == FitResult(NewInstance(cal.kind, cal.alpha), other)
            IN  /\ r.status = call.status
                /\ r.self.qhats = cal.qhats

\* a fit completed on three datapoints of which one is masked out
C13_Witness ==
    /\ call.op = "fit"
    /\ call.status = "ok"
    /\ cal.kind = "conformal-adaptive"
    /\ Len(call.mask) = 3
    /\ Cardinality({i \in 1 .. 3 : call.mask[i][1]}) = 2
    /\ Cardinality(SameWhereUnmasked(cal.kind, call)) > 1

\* the multilabel calibration inputs with the mask of call c that agree with
\* the inputs of c wherever the mask is true
SameLabelsWhereUnmasked(c) ==
    LET N == Len(c.mask)
        T == NumTasks(c.mask)
        here(i, j) ==
            IF c.mask[i][j]
            THEN {[unc |-> c.uncs[i][j], target |-> c.targets[i][j]]}
            ELSE [unc : 0 .. 1, target : 0 .. 1]
        cells == ProdSeq([i \in 1 .. N |-> ProdSeq([j \in 1 .. T |-> here(i, j)])])
    IN  {[preds |-> c.preds, uncs |-> Field(x, "unc"), targets |-> Field(x, "target"),
          mask |-> c.mask] : x \in cells}

\* C14: the multilabel fit has the same outcome and stores the same t_in and
\* t_out on any two inputs with the same mask that agree on uncertainties and
\* targets wherever the mask is true (stated for the inputs that have an
\* unmasked 0 label and an unmasked 1 label)
C14_MaskedLabelsIgnored ==
    (/\ call.op = "fit" /\ cal.kind = "conformal-multilabel" /\ call.fresh
     /\ \A label \in 0 .. 1 :
           \E i \in DOMAIN call.mask : \E j \in DOMAIN call.mask[i] :
               call.mask[i][j] /\ call.targets[i][j] = label) =>
        \A other \in SameLabelsWhereUnmasked(call) :
            LET r == multilabel_fit(NewInstance(cal.kind, cal.alpha),
                                    other.uncs, other.targets, other.mask)
            IN  /\ r.status = call.status
                /\ r.self.tin = cal.tin
                /\ r.self.tout = cal.tout

\* the calibration scores of task j that fit takes the quantile of, by
\* unmasked datapoint (doubled for the regression calibrator, as the margins)
TaskScores(kind, c, j) ==
    [i \in Unmasked(c.mask, j) |->
        IF kind = "conformal-regression"
        THEN DoubledScore(c.preds, c.uncs, c.targets, i, j)
        ELSE c.scores[i][j][c.targets[i][j] + 1]]

\* alpha < 1 / (n + 1) for the n unmasked datapoints of task j
AlphaTooSmall(alpha, mask, j) == alpha[1] * (UnmaskedCount(mask, j) + 1) < alpha[2]

\* the fit completed, and for every task with alpha < 1 / (n + 1) it warned,
\* used level 1 and stored the largest score of the task
TrivialQuantile(kind, self, c) ==
    /\ c.status = "ok"
    /\ \A j \in 1 .. NumTasks(c.mask) :
          AlphaTooSmall(self.alpha, c.mask, j) =>
              LET sc == TaskScores(kind, c, j)
              IN  /\ c.warns[j]
                  /\ c.levels[j] = <<1, 1>>
                  /\ \E i \in DOMAIN sc : sc[i] = self.qhats.vals[j]
                  /\ \A i \in DOMAIN sc : sc[i] <= self.qhats.vals[j]

---------------------------------------------------------------------------
(* fit on tensors whose shapes differ.  The code never compares the shapes *)
(* of its arguments: what stops a fit is an index outside a tensor          *)
(* (t[:, j] with j >= t.shape[1]) or a boolean index of another length      *)
(* (t[:, j][mask_j] with t.shape[0] # mask.shape[0]), both IndexError, at   *)
(* the iteration that meets it.                                             *)

\* t[:, :k]
Cols(t, k) == [i \in DOMAIN t |-> SubSeq(t[i], 1, k)]

Shape(t) == <<Len(t), NumTasks(t)>>

\* the tasks the loop over range(loops) gets through before an index leaves
\* one of the tensors, whose shape[1] are `tasks`
TasksInRange(loops, tasks) ==
    CHOOSE m \in {loops} \cup tasks : \A t \in {loops} \cup tasks : m <= t

\* the loop of `fit` over range(loops) on tensors indexed as t[:, j][mask_j]:
\* `lens` are their shape[0] and mask.shape[0], k the tasks in range and r
\* the loop run on these k tasks
fit_shapes(self, loops, lens, k, r) ==
    IF Cardinality(lens) > 1
    THEN [status |-> "IndexError", warns |-> <<>>, levels |-> <<>>,
          self |-> [self EXCEPT !.qhats = [form |-> "list", vals |-> <<>>]]]
    ELSE IF k = loops \/ r.status # "ok" THEN r
    ELSE [r EXCEPT !.status = "IndexError", !.self.qhats.form = "list"]

\* for j in range(preds.shape[1]): mask[:, j], targets[:, j][mask_j],
\* preds[:, j][mask_j], uncs[:, j][mask_j]
regression_fit_shapes(self, preds, uncs, targets, mask) ==
    LET k == TasksInRange(NumTasks(preds),
                          {NumTasks(uncs), NumTasks(targets), NumTasks(mask)})
    IN  fit_shapes(self, NumTasks(preds),
                   {Len(preds), Len(uncs), Len(targets), Len(mask)}, k,
                   regression_fit(self, Cols(preds, k), Cols(uncs, k),
                                  Cols(targets, k), Cols(mask, k)))

\* for j in range(uncs.shape[1]): mask[:, j], targets[:, j][mask_j],
\* scores[:, j][mask_j]; preds is not read
multiclass_fit_shapes(self, scores, targets, mask) ==
    LET k == TasksInRange(NumTasks(scores), {NumTasks(targets), NumTasks(mask)})
    IN  fit_shapes(self, NumTasks(scores),
                   {Len(scores), Len(targets), Len(mask)}, k,
                   multiclass_fit(self, Cols(scores, k), Cols(targets, k), Cols(mask, k)))

\* the shapes of one argument of fit
ArgShapes == {<<1, 1>>, <<2, 1>>, <<1, 2>>}

NewShapes == ConstructConformal({"conformal-multiclass", "conformal-regression",
                                 "conformal-multilabel"})

FitRegressionShapes ==
    /\ Idle
    /\ Unfitted(cal)
    /\ cal.kind = "conformal-regression"
    /\ \E sp \in ArgShapes, su \in ArgShapes, st \in ArgShapes, sm \in ArgShapes :
       \E preds \in Tensors(sp[1], sp[2], {1}), uncs \in Tensors(su[1], su[2], 0 .. 1),
          targets \in Tensors(st[1], st[2], 0 .. 2), mask \in Tensors(sm[1], sm[2], BOOLEAN) :
          LET r == regression_fit_shapes(cal, preds, uncs, targets, mask)
          IN  /\ cal' = [r.self EXCEPT !.fit_called = TRUE]
              /\ call' = [NoCall EXCEPT !.op = "fit", !.status = r.status,
                                        !.preds = preds, !.uncs = uncs,
                                        !.targets = targets, !.mask = mask,
                                        !.warns = r.warns, !.levels = r.levels,
                                        !.fresh = TRUE, !.stored = Stored(cal)]

FitMulticlassShapes ==
    /\ Idle
    /\ Unfitted(cal)
    /\ cal.kind = "conformal-multiclass"
    /\ \E sp \in ArgShapes, su \in ArgShapes, st \in ArgShapes, sm \in ArgShapes :
       \E uncs \in Tensors(su[1], su[2], ProbRows), targets \in Tensors(st[1], st[2], Classes),
          mask \in Tensors(sm[1], sm[2], BOOLEAN) :
       \E scores \in nonconformity_scores(cal.kind, uncs) :
          LET r == multiclass_fit_shapes(cal, scores, targets, mask)
          IN  /\ cal' = [r.self EXCEPT !.fit_called = TRUE]
              /\ call' = [NoCall EXCEPT !.op = "fit", !.status = r.status,
                                        !.preds = NoPreds(sp[1], sp[2]), !.uncs = uncs,
                                        !.targets = targets, !.mask = mask,
                                        !.scores = scores,
                                        !.warns = r.warns, !.levels = r.levels,
                                        !.fresh = TRUE, !.stored = Stored(cal)]

\* uncs and targets of one shape, and a mask of another number of rows, which
\* masked_fill broadcasts
FitMultilabelShapes ==
    /\ Idle
    /\ Unfitted(cal)
    /\ cal.kind = "conformal-multilabel"
    /\ \E n \in 1 .. 2, nm \in 1 .. 2 :
       \E cells \in Tensors(n, 2, [unc : 0 .. 1, target : 0 .. 1]),
          mask \in Tensors(nm, 2, BOOLEAN) :
          LET r == multilabel_fit(cal, Field(cells, "unc"), Field(cells, "target"), mask)
          IN  /\ cal' = [r.self EXCEPT !.fit_called = TRUE]
              /\ call' = [NoCall EXCEPT !.op = "fit", !.status = r.status,
                                        !.preds = NoPreds(n, 2),
                                        !.uncs = Field(cells, "unc"),
                                        !.targets = Field(cells, "target"),
                                        !.mask = mask,
                                        !.fresh = TRUE, !.stored = Stored(cal)]

NextShapes ==
    \/ NewShapes
    \/ FitRegressionShapes
    \/ FitMulticlassShapes
    \/ FitMultilabelShapes
    \/ Return

SpecShapes == Init /\ [][NextShapes]_vars

\* C16: a fit whose predictions, uncertainties, targets and mask do not all
\* have the same shape does not complete (it is rejected with an error)
C16_ShapesValidated ==
    (/\ call.op = "fit"
     /\ Cardinality({Shape(call.preds), Shape(call.uncs),
                     Shape(call.targets), Shape(call.mask)}) > 1) =>
        call.status # "ok"

---------------------------------------------------------------------------
(* The adaptive calibrator on three classes                                *)

\* class probabilities of one (datapoint, task) over three classes that share
\* 3 units
AdaptiveRows == {r \in [1 .. 3 -> 0 .. 3] : r[1] + r[2] + r[3] = 3}

AdaptiveShapes == {<<2, 1>>, <<1, 2>>}

NewAdaptive == ConstructConformal({"conformal-adaptive"})

FitAdaptive ==
    /\ Idle
    /\ Unfitted(cal)
    /\ cal.kind = "conformal-adaptive"
    /\ \E s \in AdaptiveShapes :
       \E cells \in Tensors(s[1], s[2], [unc : AdaptiveRows, target : 0 .. 2, mask : BOOLEAN]) :
       \E scores \in nonconformity_scores(cal.kind, Field(cells, "unc")) :
          LET r == multiclass_fit(cal, scores, Field(cells, "target"), Field(cells, "mask"))
          IN  /\ cal' = [r.self EXCEPT !.fit_called = TRUE]
              /\ call' = [NoCall EXCEPT !.op = "fit", !.status = r.status,
                                        !.preds = NoPreds(s[1], s[2]),
                                        !.uncs = Field(cells, "unc"),
                                        !.targets = Field(cells, "target"),
                                        !.mask = Field(cells, "mask"),
                                        !.scores = scores,
                                        !.warns = r.warns, !.levels = r.levels,
                                        !.fresh = TRUE, !.stored = Stored(cal)]

ApplyAdaptive ==
    /\ Idle
    /\ cal.kind = "conformal-adaptive"
    /\ \E t \in 1 .. 2 :
       \E uncs \in Tensors(1, t, AdaptiveRows) :
       \E scores \in nonconformity_scores(cal.kind, uncs) :
          LET r == multiclass_apply(cal, NoPreds(1, t), uncs, scores)
          IN  /\ cal' = cal
              /\ call' = [NoCall EXCEPT !.op = "apply", !.status = r.status,
                                        !.preds = NoPreds(1, t),
                                        !.uncs = uncs, !.scores = scores,
                                        !.ret = r.ret, !.fresh = Unfitted(cal)]

NextAdaptive ==
    \/ NewAdaptive
    \/ FitAdaptive
    \/ ApplyAdaptive
    \/ Return

SpecAdaptive == Init /\ [][NextAdaptive]_vars

RECURSIVE SumOver(_, _)
SumOver(row, S) ==
    IF S = {} THEN 0
    ELSE LET c == CHOOSE d \in S : TRUE IN row[c] + SumOver(row, S \ {c})

\* rank orders the classes of the row from most to least likely
RanksRow(rank, row) ==
    /\ \A a, b \in DOMAIN row : a # b => rank[a] # rank[b]
    /\ \A a, b \in DOMAIN row : row[a] > row[b] => rank[a] < rank[b]

\* sc gives every class the sum of the probabilities of the classes ranked at
\* or above it, for an order of the row from most to least likely
IsCumulativeScore(sc, row) ==
    /\ \E rank \in [DOMAIN row -> DOMAIN row] :
          /\ RanksRow(rank, row)
          /\ \A c \in DOMAIN row :
                sc[c] = SumOver(row, {d \in DOMAIN row : rank[d] <= rank[c]})
    /\ \E top \in DOMAIN row :
          /\ \A d \in DOMAIN row : row[d] <= row[top]
          /\ sc[top] = row[top]
    /\ \E last \in DOMAIN row :
          /\ \A d \in DOMAIN row : row[d] >= row[last]
          /\ sc[last] = SumOver(row, DOMAIN row)

\* the calibration, test and expected tensors of test_calibrators.py for the
\* adaptive calibrator (probabilities in tenths), alpha = 0.5
AdaptiveTestCalUncs ==
    << << <<2, 3, 5>>, <<1, 6, 3>> >>,
       << <<1, 6, 3>>, <<4, 4, 2>> >>,
       << <<4, 4, 2>>, <<2, 3, 5>> >> >>
AdaptiveTestCalTargets == << <<2, 1>>, <<1, 0>>, <<0, 2>> >>
AdaptiveTestCalMask == << <<TRUE, TRUE>>, <<TRUE, TRUE>>, <<TRUE, TRUE>> >>
AdaptiveTestUncs ==
    << << <<3, 4, 3>>, <<5, 2, 3>> >>,
       << <<5, 2, 3>>, <<6, 3, 1>> >>,
       << <<6, 3, 1>>, <<3, 4, 3>> >> >>
AdaptiveTestExpected ==
    << << <<0, 1, 0>>, <<1, 0, 0>> >>,
       << <<1, 0, 0>>, <<1, 0, 0>> >>,
       << <<1, 0, 0>>, <<0, 1, 0>> >> >>

\* what fit on the calibration tensors followed by apply on the test tensors
\* can return
AdaptiveTestOutcomes ==
    {multiclass_apply(
         multiclass_fit(NewInstance("conformal-adaptive", <<1, 2>>), cs,
                        AdaptiveTestCalTargets, AdaptiveTestCalMask).self,
         NoPreds(3, 2), AdaptiveTestUncs, ts).ret[2] :
        cs \in nonconformity_scores_adaptive(AdaptiveTestCalUncs),
        ts \in nonconformity_scores_adaptive(AdaptiveTestUncs)}

OneHotSorted(row) == \A k \in DOMAIN row : row[k] = IF k = 1 THEN SumOver(row, DOMAIN row) ELSE 0

\* the (datapoint, task) positions of the call whose row is one-hot on the
\* first class
OneHotPositions(c) ==
    {p \in {<<i, j>> : i \in DOMAIN c.uncs, j \in 1 .. NumTasks(c.uncs)} :
        /\ SumOver(c.uncs[p[1]][p[2]], DOMAIN c.uncs[p[1]][p[2]]) > 0
        /\ OneHotSorted(c.uncs[p[1]][p[2]])}

\* C18, as stated: on rows with probability 1 on the first class and 0 on the
\* others the adaptive score equals the standard multiclass score
C18_AsStated ==
    (cal.kind = "conformal-adaptive" /\ call.op \in {"fit", "apply"}) =>
        \A p \in OneHotPositions(call) :
            call.scores[p[1]][p[2]] = nonconformity_scores_multiclass(call.uncs)[p[1]][p[2]]

\* C18, amended: on such rows the adaptive score of the first class is its
\* probability, which is minus its standard score, and the adaptive score of
\* every other class is the row total where the standard score is 0
C18_OneHotScores ==
    (cal.kind = "conformal-adaptive" /\ call.op \in {"fit", "apply"}) =>
        \A p \in OneHotPositions(call) :
            LET row == call.uncs[p[1]][p[2]]
                adaptive == call.scores[p[1]][p[2]]
                standard == nonconformity_scores_multiclass(call.uncs)[p[1]][p[2]]
            IN  /\ adaptive[1] = row[1]
                /\ adaptive[1] = 0 - standard[1]
                /\ \A k \in DOMAIN row \ {1} :
                      adaptive[k] = SumOver(row, DOMAIN row) /\ standard[k] = 0

\* the adaptive calibrator was applied to a row that is one-hot on the first
\* class
C18_Witness ==
    /\ cal.kind = "conformal-adaptive"
    /\ call.op = "apply"
    /\ call.status = "ok"
    /\ <<1, 1>> \in OneHotPositions(call)
    /\ call.scores[1][1] = <<3, 3, 3>>

\* C19: in the result of apply of a fitted multilabel calibrator, for every
\* test point and label, an in-set indicator of 1 comes with an out-set
\* indicator of 1 (the fitted thresholds satisfy t_in <= t_out)
C19_InSetWithinOutSet ==
    /\ (cal.kind = "conformal-multilabel" /\ call.op = "fit" /\ call.status = "ok") =>
          cal.tin.v <= cal.tout.v
    /\ (cal.kind = "conformal-multilabel" /\ call.op = "apply" /\ call.status = "ok") =>
          \A i \in DOMAIN call.uncs : \A j \in 1 .. NumTasks(call.uncs) :
              call.ret[2][i][j] = 1 => call.ret[2][i][NumTasks(call.uncs) + j] = 1

\* C20: a fit that raises on a conformal calibrator that holds thresholds from
\* a completed fit leaves alpha and the stored thresholds as they were, and
\* apply returns afterwards what it returned before
C20_FailedFitKeepsState ==
    [][(/\ call'.op = "fit"
        /\ call'.status # "ok"
        /\ cal.kind \in ConformalKinds
        /\ Stored(cal) >= 1) =>
          /\ Fitted(cal') = Fitted(cal)
          /\ \A T \in 1 .. 2 : \A c \in TestCalls(cal.kind, T) :
                ApplyResult(cal', c) = ApplyResult(cal, c)]_vars

====
